---- MODULE Spec2Model ----
(***************************************************************************)
(* Model of thijse/TextToSpeech.                                           *)
(*                                                                         *)
(* Synthesis orchestrator: ModalityToSpeech.process_markdown_document      *)
(* (src/modality_to_speech.py), from its call on a document to its return.  *)
(* The filesystem, the temporary directory and the TTS backend (returns     *)
(* True, returns False or raises) are its environment.                      *)
(*                                                                         *)
(* MarkdownParser (src/markdown_parser.py): file-name derivation and the    *)
(* heading loop of parse, on strings modelled character by character.       *)
(*                                                                         *)
(* PowerPointProcessor.process_presentation (src/ppt_processor.py) and      *)
(* ModalityToSpeech.process_powerpoint: the markdown script generated from  *)
(* a deck, its reuse and its persistence.                                   *)
(*                                                                         *)
(* Line 51 calls process_markdown.  Two parsers stand behind that name:    *)
(*  - the annotation-dialect process_markdown of src/markdown_parser.py,    *)
(*    which returns a list of MarkdownSection: the unpacking of line 51,    *)
(*    or the loop of line 60, raises and process_markdown_document returns  *)
(*    {} through the except of line 156 (ParseDocument);                    *)
(*  - the inline-dialect process_markdown ([voice:Name], [alias:A=B]),      *)
(*    returning (aliases, sections) with VoiceSegment lists, which          *)
(*    modality_to_speech.py is written against (lines 13, 51, 79-83) but    *)
(*    whose source is not part of src/; it is modelled from sections 3 and  *)
(*    4.1 of the specification (ParseInline).                               *)
(* Every specification of process_markdown_document has both steps, and     *)
(* lines 53-155 run on what the inline-dialect parser returned.             *)
(*                                                                         *)
(* main and test_voices (src/main.py): configuration checks, dispatch on   *)
(* the command line, and the functions main calls, run to their end.        *)
(***************************************************************************)
EXTENDS Integers, Sequences, FiniteSets, TLC

\* ------------------------------------------------------------------ bounds
\* headings in a document given to process_markdown_document
MaxSections == 2
\* voice markers in such a document, all sections together
MaxTotalSegs == 3

\* ------------------------------------------------------------------ paths
\* A path is [abs, comps]: os.path.isabs and its components.
Cwd == <<"cwd">>

\* output_dir: str = "output"
DefaultOutputDir == [abs |-> FALSE, comps |-> <<"output">>]

isabs(p) == p.abs

\* os.path.join(a, b): an absolute b discards a
os_path_join(a, b) ==
    IF b.abs THEN b ELSE [abs |-> a.abs, comps |-> a.comps \o b.comps]

\* os.path.abspath(p): the file the path names, the working directory prepended
abspath(p) == IF p.abs THEN p ELSE [abs |-> TRUE, comps |-> Cwd \o p.comps]

\* os.path.dirname(p)
dirname(p) ==
    [abs |-> p.abs,
     comps |-> IF p.comps = <<>> THEN <<>> ELSE SubSeq(p.comps, 1, Len(p.comps) - 1)]

\* os.path.exists(p) on the filesystem f (keyed by absolute path)
exists(f, p) == abspath(p) \in DOMAIN f

\* ------------------------------------------------------------------ input
Whitespace == {" ", "\t", "\n"}

\* not segment.text.strip(): the text is empty or all whitespace
IsBlank(text) == \A k \in DOMAIN text : text[k] \in Whitespace

\* mutant: the loop over the segments stops after its first call
SkipBlank_Mut(segments, k) == IF k > 1 THEN Len(segments) + 1 ELSE k

\* lines 79-81: the first segment from position k on whose text is not blank,
\* which is the next one handed to text_to_speech; Len + 1 when there is none
RECURSIVE SkipBlank(_, _)
SkipBlank(segments, k) ==
    IF k > Len(segments) THEN k
    ELSE IF IsBlank(segments[k].text) THEN SkipBlank(segments, k + 1)
    ELSE k

\* ------------------------------------------------------------------ audio
\* The audio a backend writes for (text, voice); an audio file is a sequence
\* of such clips, and the pre-existing artifact is one clip of its own.
Clip(text, voice) == [text |-> text, voice |-> voice]
OldAudio == << [text |-> <<"o", "l", "d">>, voice |-> "old"] >>

\* The output file that may exist before the first run: s.mp3 in output_dir
InitialFiles ==
    {abspath(os_path_join(DefaultOutputDir,
                          [abs |-> FALSE,
                           comps |-> << <<"s", ".", "m", "p", "3">> >>]))}

\* ------------------------------------------------------------------ state
VARIABLES
    sections,         \* local sections, bound at line 51
    overwrite_audio,  \* parameter of the current run
    run,              \* number of the current invocation
    pc,               \* position in process_markdown_document
    i,                \* index of the section under the outer loop (1-based)
    j,                \* index of the segment under the inner loop (1-based)
    output_path,      \* local output_path
    temp_files,       \* local temp_files
    segment_success,  \* local segment_success
    results,          \* local results: insertion-ordered dict, <<[key, val]>>
    ret,              \* the returned dict, meaningful when pc = "done"
    exc,              \* TRUE when the outer except clause produced ret
    fs,               \* files: absolute path -> audio
    dirs,             \* directories created with os.makedirs
    tmp,              \* temporary files in creation order: [ex, data]
    calls,            \* log of text_to_speech calls
    writes,           \* log of sf.write calls
    checks,           \* log of os.path.exists calls of line 70
    done_log,         \* log of the sections the loop has finished
    stage,            \* position in the parser / adapter front end
    doc,              \* markdown_text, the argument of process_markdown
    parsed,           \* what the parser returned: [aliases, sections]
    title,            \* argument of generate_filename_from_title
    filename,         \* its return value
    headings,         \* headings found by MarkdownParser.parse
    md_sections,      \* the sections MarkdownParser.parse returned
    deck,             \* slides of the presentation: [notes, title]
    default_voice_name,    \* parameter of process_powerpoint
    include_empty_notes,   \* parameter of process_presentation
    include_slide_titles,  \* parameter of process_presentation
    overwrite_script, \* parameter of process_powerpoint
    script,           \* the markdown file at markdown_path: [ex, text]
    ppt_log,          \* log of the calls process_powerpoint made
    raw_text,         \* argument of _sanitize_text
    sanitized,        \* its return value
    config,           \* what load_config returned, the selected service's part
    argv,             \* sys.argv[1:] once main has removed --service
    main_pc,          \* position in main
    main_log,         \* what main has constructed and invoked
    voice_ids,        \* the voice ids read from the voice list file
    available_voices, \* the keys of available_voices in test_voices
    tv_pc,            \* position in test_voices
    tv_k,             \* index of the voice under the loop (1-based)
    tv_results,       \* results of test_voices: <<[key, val]>>
    tv_calls          \* log of the text_to_speech calls of test_voices

orchestrator ==
    <<sections, overwrite_audio, run, pc, i, j, output_path, temp_files,
      segment_success, results, ret, exc, fs, dirs, tmp, calls, writes,
      checks, done_log>>

slide_text == <<raw_text, sanitized>>

cli ==
    <<config, argv, main_pc, main_log, voice_ids, available_voices, tv_pc,
      tv_k, tv_results, tv_calls>>

frontend ==
    <<stage, doc, parsed, title, filename, headings, md_sections, deck,
      default_voice_name, include_empty_notes, include_slide_titles,
      overwrite_script, script, ppt_log, slide_text, cli>>

vars == <<orchestrator, frontend>>

locals == <<i, j, output_path, temp_files, segment_success>>
env == <<fs, dirs, tmp>>
logs == <<calls, writes, checks, done_log>>

NoPath == [abs |-> FALSE, comps |-> <<>>]

\* ------------------------------------------------------------------ output_dir
\* ppt_name_without_ext, and the name with spaces replaced by underscores
ppt_name_without_ext == <<"D", " ", "T">>
sanitized_name ==
    [k \in DOMAIN ppt_name_without_ext |->
        IF ppt_name_without_ext[k] = " " THEN "_" ELSE ppt_name_without_ext[k]]

\* process_powerpoint lines 189-199: the presentation lies in the working
\* directory, output_dir is the directory of its sanitized name beside it
ppt_output_dir == [abs |-> TRUE, comps |-> Cwd \o <<sanitized_name>>]

\* process_markdown_demo lines 286-299 for the document doc.md of the working
\* directory
md_output_dir == [abs |-> TRUE, comps |-> Cwd \o <<"doc">>]

\* default_voice_name of the running process_markdown_document: what
\* process_powerpoint received and passes on (line 236); else the voice
\* of the configuration when main passes it (main.py line 586), none in
\* main's interactive mode (line 701), "Default" in a direct call
DefaultVoice ==
    IF ppt_log # <<>> THEN default_voice_name
    ELSE IF main_pc = "idle" THEN "Default"
    ELSE IF argv = <<>> THEN ""
    ELSE config.voice_name

\* output_dir of the running process_markdown_document: what
\* process_powerpoint (line 237) or process_markdown_demo (main.py line 317)
\* passes, else the default
OutputDir ==
    IF ppt_log # <<>> THEN ppt_output_dir
    ELSE IF main_pc = "process_markdown_demo" THEN md_output_dir
    ELSE DefaultOutputDir

\* ------------------------------------------------------------------ dict
DictKeys(d) == { d[k].key : k \in DOMAIN d }

DictGet(d, key) == LET k == CHOOSE k \in DOMAIN d : d[k].key = key IN d[k].val

\* d[key] = val on a Python dict: a new key is appended, an existing key keeps
\* its position
DictSet(d, key, val) ==
    IF key \in DictKeys(d)
    THEN [k \in DOMAIN d |-> IF d[k].key = key THEN [key |-> key, val |-> val] ELSE d[k]]
    ELSE Append(d, [key |-> key, val |-> val])

\* ------------------------------------------------------------------ helpers
\* mutant: the relative file_path is used without output_dir
OutputPath_Mut(section) == section.file_path

\* lines 63-67
OutputPath(section) ==
    IF isabs(section.file_path)
    THEN section.file_path
    ELSE os_path_join(OutputDir, section.file_path)

\* mutant: the overwrite flag is read the wrong way round
ShouldSkip_Mut(ow, f, p) == ow /\ exists(f, p)

\* line 70
ShouldSkip(ow, f, p) == ~ow /\ exists(f, p)

\* line 53: if not sections
NoSections(s) == s = <<>>

\* mutant: the orchestrator looks the segment's voice up in the alias table
VoiceName_Mut(segment) ==
    LET v == IF segment.voice # "" THEN segment.voice ELSE DefaultVoice
    IN  IF v \in DictKeys(parsed.aliases) THEN DictGet(parsed.aliases, v) ELSE v

\* mutant: the default voice overrides the segment's voice
VoiceName_Default(segment) == DefaultVoice

\* line 83: segment.voice or default_voice_name
VoiceName(segment) == IF segment.voice # "" THEN segment.voice ELSE DefaultVoice

\* mutant: the section is concatenated as soon as one segment succeeded
AllSucceeded_Mut(ss, tf) == tf # <<>>

\* line 102: all(segment_success) and temp_files
AllSucceeded(ss, tf) == (\A k \in DOMAIN ss : ss[k]) /\ tf # <<>>

\* mutant: the clips are joined last to first
RECURSIVE Concatenate_Mut(_, _)
Concatenate_Mut(tf, t) ==
    IF tf = <<>> THEN <<>>
    ELSE Concatenate_Mut(Tail(tf), t) \o t[Head(tf)].data

\* lines 109-119: read every temp file in order and np.concatenate
RECURSIVE Concatenate(_, _)
Concatenate(tf, t) ==
    IF tf = <<>> THEN <<>>
    ELSE t[Head(tf)].data \o Concatenate(Tail(tf), t)

\* lines 136-140 / 145-149: os.remove of every path of temp_files
RemoveAll(t, tf) ==
    [k \in DOMAIN t |->
        IF \E m \in DOMAIN tf : tf[m] = k THEN [ex |-> FALSE, data |-> <<>>] ELSE t[k]]

\* tempfile.NamedTemporaryFile(delete=False): a fresh, empty, existing file
NewTemp(t) == Append(t, [ex |-> TRUE, data |-> <<>>])

CurSection == sections[i]
CurSegment == CurSection.segments[j]

\* ------------------------------------------------------------------ init
NoScript == [ex |-> FALSE, text |-> <<>>]

NoConfig == [service |-> "", api_key |-> "", region |-> "", voice_name |-> ""]

\* main and test_voices are not running
CliIdle ==
    /\ config = NoConfig
    /\ argv = <<>>
    /\ main_pc = "idle"
    /\ main_log = <<>>
    /\ voice_ids = <<>>
    /\ available_voices = {}
    /\ tv_pc = "idle"
    /\ tv_k = 0
    /\ tv_results = <<>>
    /\ tv_calls = <<>>

SlideTextIdle == raw_text = <<>> /\ sanitized = <<>>

\* The parser and the adapter are not running
FrontendIdle ==
    /\ CliIdle
    /\ SlideTextIdle
    /\ stage = "idle"
    /\ doc = <<>>
    /\ parsed = [aliases |-> <<>>, sections |-> <<>>]
    /\ title = <<>>
    /\ filename = <<>>
    /\ headings = <<>>
    /\ md_sections = <<>>
    /\ deck = <<>>
    /\ default_voice_name = ""
    /\ include_empty_notes = FALSE
    /\ include_slide_titles = FALSE
    /\ overwrite_script = FALSE
    /\ script = NoScript
    /\ ppt_log = <<>>

\* ------------------------------------------------------------------ actions
\* lines 53-55: the parser found no section
ReturnEmpty ==
    /\ pc = "start"
    /\ NoSections(sections)
    /\ pc' = "done"
    /\ ret' = <<>>
    /\ UNCHANGED <<frontend, sections, overwrite_audio, run, locals, results, exc, env, logs>>

\* lines 57-60: create output_dir, start the loop
Start ==
    /\ pc = "start"
    /\ ~NoSections(sections)
    /\ dirs' = dirs \cup {abspath(OutputDir)}
    /\ results' = <<>>
    /\ i' = 1
    /\ pc' = "section"
    /\ UNCHANGED <<frontend, sections, overwrite_audio, run, j, output_path, temp_files,
                   segment_success, ret, exc, fs, tmp, logs>>

\* lines 63-74: the artifact exists and is not to be overwritten
SkipExisting ==
    /\ pc = "section"
    /\ i <= Len(sections)
    /\ LET p == OutputPath(CurSection) IN
        /\ ShouldSkip(overwrite_audio, fs, p)
        /\ output_path' = p
        /\ checks' = Append(checks, [run |-> run, sec |-> i, path |-> p])
        /\ results' = DictSet(results, p, TRUE)
        /\ done_log' = Append(done_log,
               [run |-> run, sec |-> i, kind |-> "skipped", path |-> p,
                val |-> TRUE, success |-> <<>>, before |-> fs,
                ow |-> overwrite_audio])
    /\ i' = i + 1
    /\ UNCHANGED <<frontend, sections, overwrite_audio, run, pc, j, temp_files,
                   segment_success, ret, exc, env, calls, writes>>

\* lines 63-78: the section is to be synthesized
BeginSection ==
    /\ pc = "section"
    /\ i <= Len(sections)
    /\ LET p == OutputPath(CurSection) IN
        /\ ~ShouldSkip(overwrite_audio, fs, p)
        /\ output_path' = p
        /\ checks' = IF overwrite_audio THEN checks
                     ELSE Append(checks, [run |-> run, sec |-> i, path |-> p])
    /\ temp_files' = <<>>
    /\ segment_success' = <<>>
    /\ j' = SkipBlank(CurSection.segments, 1)
    /\ pc' = "segment"
    /\ UNCHANGED <<frontend, sections, overwrite_audio, run, i, results, ret, exc, env,
                   calls, writes, done_log>>

Call(outcome) ==
    [run |-> run, sec |-> i, seg |-> j, text |-> CurSegment.text,
     voice |-> VoiceName(CurSegment), target |-> Len(tmp) + 1, outcome |-> outcome]

\* lines 79-97: text_to_speech returned True and wrote the temp file; the
\* loop moves on to the next segment whose text is not blank
SynthesizeOk ==
    /\ pc = "segment"
    /\ j <= Len(CurSection.segments)
    /\ tmp' = Append(tmp, [ex |-> TRUE,
                           data |-> <<Clip(CurSegment.text, VoiceName(CurSegment))>>])
    /\ calls' = Append(calls, Call("ok"))
    /\ segment_success' = Append(segment_success, TRUE)
    /\ temp_files' = Append(temp_files, Len(tmp) + 1)
    /\ j' = SkipBlank(CurSection.segments, j + 1)
    /\ UNCHANGED <<frontend, sections, overwrite_audio, run, pc, i, output_path, results,
                   ret, exc, fs, dirs, writes, checks, done_log>>

\* lines 79-99: text_to_speech returned False
SynthesizeFail ==
    /\ pc = "segment"
    /\ j <= Len(CurSection.segments)
    /\ tmp' = NewTemp(tmp)
    /\ calls' = Append(calls, Call("fail"))
    /\ segment_success' = Append(segment_success, FALSE)
    /\ j' = SkipBlank(CurSection.segments, j + 1)
    /\ UNCHANGED <<frontend, sections, overwrite_audio, run, pc, i, output_path, temp_files,
                   results, ret, exc, fs, dirs, writes, checks, done_log>>

\* lines 89, 156-158: text_to_speech raised; the outer except returns {}
SynthesizeRaise ==
    /\ pc = "segment"
    /\ j <= Len(CurSection.segments)
    /\ tmp' = NewTemp(tmp)
    /\ calls' = Append(calls, Call("raise"))
    /\ ret' = <<>>
    /\ exc' = TRUE
    /\ pc' = "done"
    /\ UNCHANGED <<frontend, sections, overwrite_audio, run, i, j, output_path, temp_files,
                   segment_success, results, fs, dirs, writes, checks, done_log>>

SectionDone(kind, val) ==
    [run |-> run, sec |-> i, kind |-> kind, path |-> output_path, val |-> val,
     success |-> segment_success, before |-> fs, ow |-> overwrite_audio]

\* lines 102-127, 134-140: every segment succeeded; concatenate, write, clean up
ConcatOk ==
    /\ pc = "segment"
    /\ j > Len(CurSection.segments)
    /\ AllSucceeded(segment_success, temp_files)
    /\ LET audio == Concatenate(temp_files, tmp)
           target == abspath(output_path) IN
        /\ dirs' = dirs \cup {dirname(target)}
        /\ fs' = [p \in DOMAIN fs \cup {target} |-> IF p = target THEN audio ELSE fs[p]]
        /\ writes' = Append(writes, [run |-> run, sec |-> i, path |-> output_path,
                                     data |-> audio])
    /\ results' = DictSet(results, output_path, TRUE)
    /\ tmp' = RemoveAll(tmp, temp_files)
    /\ done_log' = Append(done_log, SectionDone("written", TRUE))
    /\ i' = i + 1
    /\ pc' = "section"
    /\ UNCHANGED <<frontend, sections, overwrite_audio, run, j, output_path, temp_files,
                   segment_success, ret, exc, calls, checks>>

\* lines 102-125, 131-140: the inner except and finally. Reading a temp file
\* raised (lines 109-115), or sf.write raised (line 125) after os.makedirs of
\* line 122; a write that raised may have created or truncated the output file
ConcatFail ==
    /\ pc = "segment"
    /\ j > Len(CurSection.segments)
    /\ AllSucceeded(segment_success, temp_files)
    /\ LET target == abspath(output_path) IN
         \E cause \in {"read", "write", "write_truncated"} :
            /\ dirs' = IF cause = "read" THEN dirs
                       ELSE dirs \cup {dirname(target)}
            /\ fs' = IF cause = "write_truncated"
                     THEN [p \in DOMAIN fs \cup {target} |->
                              IF p = target THEN <<>> ELSE fs[p]]
                     ELSE fs
    /\ results' = DictSet(results, output_path, FALSE)
    /\ tmp' = RemoveAll(tmp, temp_files)
    /\ done_log' = Append(done_log, SectionDone("concat_failed", FALSE))
    /\ i' = i + 1
    /\ pc' = "section"
    /\ UNCHANGED <<frontend, sections, overwrite_audio, run, j, output_path, temp_files,
                   segment_success, ret, exc, calls, writes, checks>>

\* lines 141-149: some segment failed, or no segment was synthesized
SectionFailed ==
    /\ pc = "segment"
    /\ j > Len(CurSection.segments)
    /\ ~AllSucceeded(segment_success, temp_files)
    /\ results' = DictSet(results, output_path, FALSE)
    /\ tmp' = RemoveAll(tmp, temp_files)
    /\ done_log' = Append(done_log, SectionDone("failed", FALSE))
    /\ i' = i + 1
    /\ pc' = "section"
    /\ UNCHANGED <<frontend, sections, overwrite_audio, run, j, output_path, temp_files,
                   segment_success, ret, exc, fs, dirs, calls, writes, checks>>

\* lines 151-155: the loop is over, return results
Finish ==
    /\ pc = "section"
    /\ i > Len(sections)
    /\ ret' = results
    /\ pc' = "done"
    /\ UNCHANGED <<frontend, sections, overwrite_audio, run, locals, results, exc, env, logs>>

\* ------------------------------------------------------------------ claims
\* The reference the claims are stated against, written out independently of
\* the model's operators.
ExpectedPath(section) ==
    IF section.file_path.abs
    THEN section.file_path
    ELSE [abs |-> OutputDir.abs, comps |-> OutputDir.comps \o section.file_path.comps]

NonBlank(section) ==
    { m \in DOMAIN section.segments :
        \E k \in DOMAIN section.segments[m].text :
            section.segments[m].text[k] \notin Whitespace }

RECURSIVE ExpectedAudio(_)
ExpectedAudio(segs) ==
    IF segs = <<>> THEN <<>>
    ELSE LET s == Head(segs) IN
         (IF \E k \in DOMAIN s.text : s.text[k] \notin Whitespace
          THEN << [text |-> s.text,
                   voice |-> IF s.voice = "" THEN DefaultVoice ELSE s.voice] >>
          ELSE <<>>) \o ExpectedAudio(Tail(segs))

CallsOf(r, s) == { k \in DOMAIN calls : calls[k].run = r /\ calls[k].sec = s }
WritesOf(r, s) == { k \in DOMAIN writes : writes[k].run = r /\ writes[k].sec = s }
DoneOf(r) == { k \in DOMAIN done_log : done_log[k].run = r }

\* The section the loop has just finished, when it stands between two sections
JustFinished == pc = "section" /\ i > 1 /\ done_log # <<>>
LastDone == done_log[Len(done_log)]

FirstSection(key) ==
    CHOOSE s \in 1..Len(sections) :
        /\ ExpectedPath(sections[s]) = key
        /\ \A t \in 1..(s - 1) : ExpectedPath(sections[t]) # key

MaxTitleLen == 4
\* headings in a document given to MarkdownParser.parse
MaxHeadings == 3
\* deepest heading level in those documents
MaxLevel == 3

\* ------------------------------------------------------------------ characters
LowerLetters ==
    {"a", "b", "c", "d", "e", "i", "l", "m", "n", "o", "p", "r", "t", "w", "x"}
UpperLetters == {"A", "D", "I", "S", "T", "W"}
Digits == {"0", "1", "2", "3", "4", "5", "6", "7", "8", "9"}

\* \w of the re module
IsWordChar(c) == c \in LowerLetters \cup UpperLetters \cup Digits \cup {"_"}

\* \s of the re module, the characters str.strip() removes
IsSpace(c) == c \in {" ", "\t", "\n"}

\* str.lower() on one character
Lower(c) ==
    CASE c = "A" -> "a"
      [] c = "D" -> "d"
      [] c = "I" -> "i"
      [] c = "S" -> "s"
      [] c = "T" -> "t"
      [] c = "W" -> "w"
      [] OTHER -> c

\* str.strip()
RECURSIVE LStrip(_)
LStrip(str) ==
    IF str # <<>> /\ IsSpace(Head(str)) THEN LStrip(Tail(str)) ELSE str

RECURSIVE RStrip(_)
RStrip(str) ==
    IF str # <<>> /\ IsSpace(str[Len(str)])
    THEN RStrip(SubSeq(str, 1, Len(str) - 1))
    ELSE str

Strip(str) == RStrip(LStrip(str))

\* re.sub(r'[^\w\s-]', '', title)
RemoveSpecial(str) ==
    SelectSeq(str, LAMBDA c : IsWordChar(c) \/ IsSpace(c) \/ c = "-")

\* re.sub(r'[-\s]+', '_', filename): the leftmost run, then the rest
RECURSIVE SkipRun(_)
SkipRun(str) ==
    IF str # <<>> /\ (IsSpace(Head(str)) \/ Head(str) = "-")
    THEN SkipRun(Tail(str))
    ELSE str

RECURSIVE ReplaceRuns(_)
ReplaceRuns(str) ==
    IF str = <<>> THEN <<>>
    ELSE IF IsSpace(Head(str)) \/ Head(str) = "-"
         THEN <<"_">> \o ReplaceRuns(SkipRun(str))
         ELSE <<Head(str)>> \o ReplaceRuns(Tail(str))

Mp3 == <<".", "m", "p", "3">>

generate_filename_from_title_Mut(t) ==
    LET removed == RemoveSpecial(t)
        lowered == [k \in DOMAIN removed |-> Lower(removed[k])]
    IN  ReplaceRuns(lowered) \o Mp3

\* lines 61-74
generate_filename_from_title(t) ==
    LET stripped == Strip(RemoveSpecial(t))
        lowered == [k \in DOMAIN stripped |-> Lower(stripped[k])]
    IN  ReplaceRuns(lowered) \o Mp3

\* ------------------------------------------------------------------ parse
\* "_".join(section_path)
RECURSIVE JoinUnderscore(_)
JoinUnderscore(parts) ==
    IF parts = <<>> THEN <<>>
    ELSE IF Len(parts) = 1 THEN parts[1]
    ELSE parts[1] \o <<"_">> \o JoinUnderscore(Tail(parts))

\* No file= annotation on the heading (file_path is None)
NoFile == <<>>

\* lines 130-135: the titles kept in section_hierarchy for levels 1..level
RECURSIVE SectionPath(_, _, _)
SectionPath(section_hierarchy, l, level) ==
    IF l > level THEN <<>>
    ELSE (IF l \in DOMAIN section_hierarchy
          THEN <<section_hierarchy[l]>> ELSE <<>>)
         \o SectionPath(section_hierarchy, l + 1, level)

SectionFilePath_Mut(section_hierarchy, heading) ==
    IF heading.file_path # NoFile
    THEN heading.file_path
    ELSE generate_filename_from_title(heading.title)

\* lines 129-138: file_path of a section, section_hierarchy already updated
SectionFilePath(section_hierarchy, heading) ==
    IF heading.file_path # NoFile
    THEN heading.file_path
    ELSE generate_filename_from_title(
             JoinUnderscore(SectionPath(section_hierarchy, 1, heading.level)))

\* lines 115-141: the loop over the headings found by lines 88-107
RECURSIVE ParseLoop(_, _, _)
ParseLoop(hs, section_hierarchy, out) ==
    IF hs = <<>> THEN out
    ELSE LET heading == Head(hs)
             hierarchy ==
                 [l \in DOMAIN section_hierarchy \cup {heading.level} |->
                     IF l = heading.level THEN heading.title
                     ELSE section_hierarchy[l]]
             section ==
                 [title |-> heading.title,
                  content |-> Strip(heading.content),
                  file_path |-> SectionFilePath(hierarchy, heading),
                  voice_name |-> heading.voice_name]
         IN  ParseLoop(Tail(hs), hierarchy, Append(out, section))

\* lines 76-143
parse(hs) == ParseLoop(hs, <<>>, <<>>)

\* ------------------------------------------------------------------ sanitize
\* Characters of slide text beyond the printable ones: a control character
\* other than newline and tab, the non-breaking space, a zero-width mark
\* and a decorative glyph, each standing for its class
Ctl == "\r"
Nbsp == "U+00A0"
ZeroWidth == {"U+200B", "U+200C", "U+200D", "U+2060", "U+FEFF"}
Glyphs == {"U+2642", "U+2640"}

\* ord(ch) < 32
IsControl(c) == c \in {Ctl, "\n", "\t"}

\* the characters str.split() separates on
IsSplitSpace(c) == c \in {" ", "\t", "\n", Ctl, Nbsp}

\* sanitized.split(): the maximal runs of non-whitespace characters
RECURSIVE SplitWords(_, _)
SplitWords(str, word) ==
    IF str = <<>> THEN (IF word = <<>> THEN <<>> ELSE <<word>>)
    ELSE IF IsSplitSpace(Head(str))
         THEN (IF word = <<>> THEN <<>> ELSE <<word>>) \o SplitWords(Tail(str), <<>>)
         ELSE SplitWords(Tail(str), Append(word, Head(str)))

\* ' '.join(words)
RECURSIVE JoinSpace(_)
JoinSpace(words) ==
    IF words = <<>> THEN <<>>
    ELSE IF Len(words) = 1 THEN words[1]
    ELSE words[1] \o <<" ">> \o JoinSpace(Tail(words))

sanitize_text_Mut(text) ==
    LET kept == SelectSeq(text, LAMBDA c : ~IsControl(c))
        spaced == [k \in DOMAIN kept |-> IF kept[k] = Nbsp THEN " " ELSE kept[k]]
        visible == SelectSeq(spaced, LAMBDA c : c \notin ZeroWidth \cup Glyphs)
    IN  JoinSpace(SplitWords(visible, <<>>))

\* lines 135-161
sanitize_text(text) ==
    LET kept == SelectSeq(text, LAMBDA c : c = "\n" \/ c = "\t" \/ ~IsControl(c))
        spaced == [k \in DOMAIN kept |-> IF kept[k] = Nbsp THEN " " ELSE kept[k]]
        visible == SelectSeq(spaced, LAMBDA c : c \notin ZeroWidth \cup Glyphs)
    IN  JoinSpace(SplitWords(visible, <<>>))

\* ------------------------------------------------------------------ inputs
\* characters in a text given to _sanitize_text
MaxTextLen == 4

TextChars == {"a", " ", "\n", "\t", Ctl, Nbsp, "U+200B", "U+2642"}

TitleChars == {"a", "A", " ", "-", ":", "_"}

RECURSIVE StringsUpTo(_, _)
StringsUpTo(chars, n) ==
    IF n = 0 THEN {<<>>}
    ELSE LET shorter == StringsUpTo(chars, n - 1)
         IN  shorter \cup { Append(str, c) : str \in shorter, c \in chars }

Titles == StringsUpTo(TitleChars, MaxTitleLen)

RawTexts == StringsUpTo(TextChars, MaxTextLen)

HeadingTitles == {<<"A">>, <<"b", " ", "c">>}
AnnotatedFile == <<"x", ".", "m", "p", "3">>

\* What lines 88-107 collect for one heading, with the text under it
HeadingDomain ==
    [level : 1..MaxLevel, title : HeadingTitles,
     file_path : {NoFile, AnnotatedFile}, voice_name : {""},
     content : {<<" ", "x", "\n">>}]

RECURSIVE HeadingListsOf(_)
HeadingListsOf(n) ==
    IF n = 0 THEN {<<>>}
    ELSE LET shorter == HeadingListsOf(n - 1)
         IN  shorter \cup { Append(hs, h) : hs \in shorter, h \in HeadingDomain }

HeadingLists == HeadingListsOf(MaxHeadings)

\* ------------------------------------------------------------------ actions
OrchestratorWaiting ==
    /\ sections = <<>>
    /\ run = 1
    /\ pc = "idle"
    /\ i = 0
    /\ j = 0
    /\ output_path = NoPath
    /\ temp_files = <<>>
    /\ segment_success = <<>>
    /\ results = <<>>
    /\ ret = <<>>
    /\ exc = FALSE
    /\ fs = <<>>
    /\ dirs = {}
    /\ tmp = <<>>
    /\ calls = <<>>
    /\ writes = <<>>
    /\ checks = <<>>
    /\ done_log = <<>>

OrchestratorIdle == overwrite_audio = FALSE /\ OrchestratorWaiting

InitFile ==
    /\ OrchestratorIdle
    /\ CliIdle
    /\ doc = <<>>
    /\ parsed = [aliases |-> <<>>, sections |-> <<>>]
    /\ filename = <<>>
    /\ md_sections = <<>>
    /\ deck = <<>>
    /\ default_voice_name = ""
    /\ include_empty_notes = FALSE
    /\ include_slide_titles = FALSE
    /\ overwrite_script = FALSE
    /\ script = NoScript
    /\ ppt_log = <<>>
    /\ sanitized = <<>>
    /\ \/ stage = "title" /\ title \in Titles /\ headings = <<>>
                         /\ raw_text = <<>>
       \/ stage = "headings" /\ title = <<>> /\ headings \in HeadingLists
                            /\ raw_text = <<>>
       \/ stage = "text" /\ title = <<>> /\ headings = <<>>
                        /\ raw_text \in RawTexts

\* generate_filename_from_title(title) is called
GenerateFilename ==
    /\ stage = "title"
    /\ filename' = generate_filename_from_title(title)
    /\ stage' = "named"
    /\ UNCHANGED <<orchestrator, slide_text, cli, doc, parsed, title, headings, md_sections,
                   deck, default_voice_name, include_empty_notes,
                   include_slide_titles, overwrite_script, script, ppt_log>>

\* MarkdownParser.parse runs over the document
ParseHeadings ==
    /\ stage = "headings"
    /\ md_sections' = parse(headings)
    /\ stage' = "sectioned"
    /\ UNCHANGED <<orchestrator, slide_text, cli, doc, parsed, title, filename, headings,
                   deck, default_voice_name, include_empty_notes,
                   include_slide_titles, overwrite_script, script, ppt_log>>

\* _sanitize_text(raw_text) is called
SanitizeText ==
    /\ stage = "text"
    /\ sanitized' = sanitize_text(raw_text)
    /\ stage' = "clean"
    /\ UNCHANGED <<orchestrator, cli, doc, parsed, title, filename, headings,
                   md_sections, deck, default_voice_name, include_empty_notes,
                   include_slide_titles, overwrite_script, script, ppt_log,
                   raw_text>>

NextFile == GenerateFilename \/ ParseHeadings \/ SanitizeText

SpecFile == InitFile /\ [][NextFile]_vars

\* ------------------------------------------------------------------ claims
\* The derivation the specification describes, position by position.
RefKept(t) ==
    LET keep == { k \in DOMAIN t :
                    IsWordChar(t[k]) \/ IsSpace(t[k]) \/ t[k] = "-" }
        first == IF \E k \in keep : ~IsSpace(t[k])
                 THEN CHOOSE k \in keep : /\ ~IsSpace(t[k])
                                          /\ \A m \in keep : m < k => IsSpace(t[m])
                 ELSE 0
        last == IF first = 0 THEN 0
                ELSE CHOOSE k \in keep : /\ ~IsSpace(t[k])
                                         /\ \A m \in keep : m > k => IsSpace(t[m])
    IN  { k \in keep : first # 0 /\ first <= k /\ k <= last }

RefIsSep(c) == IsSpace(c) \/ c = "-"

\* the kept position before k, 0 when k is the first one
RefPrev(t, k) ==
    LET before == { m \in RefKept(t) : m < k }
    IN  IF before = {} THEN 0 ELSE CHOOSE m \in before : \A n \in before : n <= m

RECURSIVE RefEmit(_, _)
RefEmit(t, k) ==
    IF k > Len(t) THEN <<>>
    ELSE (IF k \notin RefKept(t) THEN <<>>
          ELSE IF ~RefIsSep(t[k]) THEN <<Lower(t[k])>>
          ELSE IF RefPrev(t, k) # 0 /\ RefIsSep(t[RefPrev(t, k)]) THEN <<>>
          ELSE <<"_">>)
         \o RefEmit(t, k + 1)

RefDerive(t) == RefEmit(t, 1) \o Mp3

IntroWelcome ==
    <<"I", "n", "t", "r", "o", ":", " ", "W", "e", "l", "c", "o", "m", "e", "!">>

\* C15: the file name derived from a title is the reference derivation of
\* that title (drop characters that are not word, whitespace or hyphen; strip;
\* lowercase; one underscore per run of whitespace/hyphen; append ".mp3"), and
\* "Intro: Welcome!" gives "intro_welcome.mp3".
C15_FilenameDerivation ==
    /\ stage = "named" => filename = RefDerive(title)
    /\ generate_filename_from_title(IntroWelcome)
         = <<"i", "n", "t", "r", "o", "_", "w", "e", "l", "c", "o", "m", "e">>
           \o Mp3

C15_Witness ==
    /\ stage = "named"
    /\ title = <<" ", "A", ":", "-">>
    /\ filename = <<"a", "_">> \o Mp3

\* The title of the latest heading of level l among the first k headings
RefLatestAt(hs, k, l) ==
    LET at == { m \in 1..k : hs[m].level = l }
    IN  IF at = {} THEN <<>>
        ELSE << hs[CHOOSE m \in at : \A n \in at : n <= m].title >>

RECURSIVE RefPath(_, _, _)
RefPath(hs, k, l) ==
    IF l = 0 THEN <<>>
    ELSE RefPath(hs, k, l - 1) \o RefLatestAt(hs, k, l)

\* C16 as stated: a heading without a file annotation gets the derivation of
\* its own title, whatever headings precede it; an annotated heading keeps
\* its annotation.
C16_OwnTitleOnly ==
    stage = "sectioned" =>
        /\ Len(md_sections) = Len(headings)
        /\ \A k \in DOMAIN headings :
              md_sections[k].file_path =
                  IF headings[k].file_path # NoFile
                  THEN headings[k].file_path
                  ELSE RefDerive(headings[k].title)

\* C16 amended: a heading of level L without a file annotation gets the
\* derivation of the titles of the latest headings of levels 1..L so far
\* (its own title last), joined by underscores; an annotated heading keeps
\* its annotation.
C16_HierarchyPath ==
    stage = "sectioned" =>
        /\ Len(md_sections) = Len(headings)
        /\ \A k \in DOMAIN headings :
              md_sections[k].file_path =
                  IF headings[k].file_path # NoFile
                  THEN headings[k].file_path
                  ELSE RefDerive(JoinUnderscore(
                           RefPath(headings, k, headings[k].level)))

C16_Witness ==
    /\ stage = "sectioned"
    /\ Len(headings) = 2
    /\ headings[1].level = 1 /\ headings[1].title = <<"A">>
    /\ headings[2].level = 2 /\ headings[2].title = <<"b", " ", "c">>
    /\ headings[2].file_path = NoFile
    /\ md_sections[2].file_path = <<"a", "_", "b", "_", "c">> \o Mp3

\* =================================================================
\* PowerPointProcessor (src/ppt_processor.py) and process_powerpoint
\* =================================================================
\* A markdown document is the sequence of its items: headings, voice-switch
\* directives, alias definitions and runs of plain text, in source order.
\* file is the file= annotation of a heading, NoFile when there is none.
HeadingAt(level, t, file) ==
    [kind |-> "heading", level |-> level, name |-> "", target |-> "", text |-> t,
     file |-> file]

Heading(level, t) == HeadingAt(level, t, NoFile)

VoiceMark(name) ==
    [kind |-> "voice", level |-> 0, name |-> name, target |-> "", text |-> <<>>,
     file |-> NoFile]

AliasDef(name, target) ==
    [kind |-> "alias", level |-> 0, name |-> name, target |-> target,
     text |-> <<>>, file |-> NoFile]

Text(t) ==
    [kind |-> "text", level |-> 0, name |-> "", target |-> "", text |-> t,
     file |-> NoFile]

\* ------------------------------------------------------------------ bounds
\* slides in a presentation
MaxSlides == 3

\* ------------------------------------------------------------------ inputs
\* What _extract_notes_text and _get_slide_title return for a slide
SlideNotes == {<<>>, <<"n">>, <<"m">>}
SlideTitles == {<<>>, <<"T">>}
SlideDomain == [notes : SlideNotes, title : SlideTitles]

RECURSIVE DecksOf(_)
DecksOf(n) ==
    IF n = 0 THEN {<<>>}
    ELSE LET shorter == DecksOf(n - 1)
         IN  shorter \cup { Append(d, sl) : d \in shorter, sl \in SlideDomain }

\* default_voice_name: a voice, or nothing (None or "")
DeckVoices == {"", "Narrator"}

\* markdown_path inside output_dir
markdown_path ==
    [dir |-> sanitized_name, file |-> sanitized_name \o <<".", "m", "d">>]

\* The script a previous run or the user left at markdown_path
OldScript == <<Heading(2, <<"o">>), VoiceMark("Narrator"), Text(<<"o">>)>>

\* ------------------------------------------------------------------ adapter
DigitOf(n) == <<"0", "1", "2", "3", "4", "5", "6", "7", "8", "9">>[n + 1]

Retained_Mut(notes_text, ien) == TRUE

\* lines 92-93: the slide is not skipped
Retained(notes_text, ien) == ~(notes_text = <<>> /\ ~ien)

SlideHeader_Mut(slide_number, slide_title, ist) ==
    <<"S", "l", "i", "d", "e", " ", DigitOf(slide_number)>>

\* lines 99-102: the header text after "## "
SlideHeader(slide_number, slide_title, ist) ==
    IF slide_title # <<>> /\ ist
    THEN <<"S", "l", "i", "d", "e", " ", DigitOf(slide_number)>>
         \o <<" ", "-", " ">> \o slide_title
    ELSE <<"S", "l", "i", "d", "e", " ", DigitOf(slide_number)>>

VoiceLine_Mut(first_slide_with_notes, voice) ==
    IF voice # "" THEN <<VoiceMark(voice)>> ELSE <<>>

\* lines 107-108: the directive line
VoiceLine(first_slide_with_notes, voice) ==
    IF first_slide_with_notes /\ voice # "" THEN <<VoiceMark(voice)>> ELSE <<>>

\* lines 85-113: the loop over the slides
RECURSIVE SlideLoop(_, _, _, _, _, _, _)
SlideLoop(slides, slide_number, first_slide_with_notes, markdown_lines, voice, ist, ien) ==
    IF slide_number > Len(slides) THEN markdown_lines
    ELSE LET sl == slides[slide_number] IN
         IF ~Retained(sl.notes, ien)
         THEN SlideLoop(slides, slide_number + 1, first_slide_with_notes,
                        markdown_lines, voice, ist, ien)
         ELSE SlideLoop(slides, slide_number + 1,
                  first_slide_with_notes
                      /\ ~(first_slide_with_notes /\ voice # ""),
                  markdown_lines
                      \o <<Heading(2, SlideHeader(slide_number, sl.title, ist))>>
                      \o VoiceLine(first_slide_with_notes, voice)
                      \o (IF sl.notes # <<>> THEN <<Text(sl.notes)>> ELSE <<>>),
                  voice, ist, ien)

\* lines 72-119, the presentation loaded
process_presentation(slides, voice, ist, ien) ==
    SlideLoop(slides, 1, TRUE, <<Heading(1, ppt_name_without_ext)>>,
              voice, ist, ien)

\* ------------------------------------------------------------------ actions
InitDeck ==
    /\ OrchestratorIdle
    /\ CliIdle
    /\ SlideTextIdle
    /\ stage = "powerpoint"
    /\ doc = <<>>
    /\ parsed = [aliases |-> <<>>, sections |-> <<>>]
    /\ title = <<>>
    /\ filename = <<>>
    /\ headings = <<>>
    /\ md_sections = <<>>
    /\ deck \in DecksOf(MaxSlides)
    /\ default_voice_name \in DeckVoices
    /\ include_empty_notes \in BOOLEAN
    /\ include_slide_titles \in BOOLEAN
    /\ overwrite_script \in BOOLEAN
    /\ script \in {NoScript, [ex |-> TRUE, text |-> OldScript]}
    /\ ppt_log = <<>>

\* lines 200-206, 228-240: the script exists and is not to be overwritten
UseExistingScript ==
    /\ stage = "powerpoint"
    /\ script.ex /\ ~overwrite_script
    /\ doc' = script.text
    /\ stage' = "document"
    /\ ppt_log' = << [op |-> "exists", path |-> markdown_path, text |-> <<>>,
                      ok |-> script.ex],
                     [op |-> "process_markdown_document",
                      path |-> markdown_path, text |-> script.text,
                      ok |-> TRUE] >>
    /\ dirs' = dirs \cup {ppt_output_dir}
    /\ UNCHANGED <<sections, overwrite_audio, run, pc, locals, results, ret, exc,
                   fs, tmp, logs, slide_text, cli, parsed, title, filename,
                   headings, md_sections, deck, default_voice_name,
                   include_empty_notes, include_slide_titles, overwrite_script,
                   script>>

\* lines 200-240: the script is generated. saved is what save_markdown
\* returned; it returns False when open (ppt_processor.py line 197) or
\* f.write (line 198) raised, and in the second case the file has been
\* created or truncated
Regenerate(saved, truncated) ==
    /\ stage = "powerpoint"
    /\ ~script.ex \/ overwrite_script
    /\ LET markdown_text ==
               process_presentation(deck, default_voice_name,
                                    include_slide_titles, include_empty_notes)
       IN  /\ doc' = markdown_text
           /\ script' = IF saved THEN [ex |-> TRUE, text |-> markdown_text]
                        ELSE IF truncated THEN [ex |-> TRUE, text |-> <<>>]
                        ELSE script
           /\ ppt_log' =
                  << [op |-> "exists", path |-> markdown_path, text |-> <<>>,
                      ok |-> script.ex],
                     [op |-> "process_presentation", path |-> markdown_path,
                      text |-> markdown_text, ok |-> TRUE],
                     [op |-> "save_markdown", path |-> markdown_path,
                      text |-> markdown_text, ok |-> saved],
                     [op |-> "process_markdown_document",
                      path |-> markdown_path, text |-> markdown_text,
                      ok |-> TRUE] >>
    /\ stage' = "document"
    /\ dirs' = dirs \cup {ppt_output_dir}
    /\ UNCHANGED <<sections, overwrite_audio, run, pc, locals, results, ret, exc,
                   fs, tmp, logs, slide_text, cli, parsed, title, filename,
                   headings, md_sections, deck, default_voice_name,
                   include_empty_notes, include_slide_titles, overwrite_script>>

ExtractAndSave == Regenerate(TRUE, FALSE)

ExtractSaveFailed == \E truncated \in BOOLEAN : Regenerate(FALSE, truncated)

\* lines 121-123 and 218-220: the presentation cannot be read,
\* process_presentation returns "" and process_powerpoint returns {}
ExtractFailed ==
    /\ stage = "powerpoint"
    /\ ~script.ex \/ overwrite_script
    /\ doc' = <<>>
    /\ stage' = "returned"
    /\ ppt_log' = << [op |-> "exists", path |-> markdown_path, text |-> <<>>,
                      ok |-> script.ex],
                     [op |-> "process_presentation", path |-> markdown_path,
                      text |-> <<>>, ok |-> FALSE] >>
    /\ dirs' = dirs \cup {ppt_output_dir}
    /\ UNCHANGED <<sections, overwrite_audio, run, pc, locals, results, ret, exc,
                   fs, tmp, logs, slide_text, cli, parsed, title, filename,
                   headings, md_sections, deck, default_voice_name,
                   include_empty_notes, include_slide_titles, overwrite_script,
                   script>>

\* =================================================================
\* process_markdown, inline dialect (specification 3 and 4.1)
\* =================================================================
\* ------------------------------------------------------------------ bounds
\* items in a document given to the parser
MaxDocLen == 5

\* ------------------------------------------------------------------ aliases
\* Alias definitions strictly before the first heading of level 2 or deeper
RECURSIVE CollectAliases_Mut(_, _)
CollectAliases_Mut(items, aliases) ==
    IF items = <<>> THEN aliases
    ELSE CollectAliases_Mut(Tail(items),
             IF Head(items).kind = "alias"
             THEN DictSet(aliases, Head(items).name, Head(items).target)
             ELSE aliases)

RECURSIVE CollectAliases(_, _)
CollectAliases(items, aliases) ==
    IF items = <<>> THEN aliases
    ELSE IF Head(items).kind = "heading" /\ Head(items).level >= 2 THEN aliases
    ELSE CollectAliases(Tail(items),
             IF Head(items).kind = "alias"
             THEN DictSet(aliases, Head(items).name, Head(items).target)
             ELSE aliases)

ResolveVoice_Mut(aliases, name) ==
    IF name \in DictKeys(aliases)
    THEN IF DictGet(aliases, name) \in DictKeys(aliases)
         THEN DictGet(aliases, DictGet(aliases, name))
         ELSE DictGet(aliases, name)
    ELSE name

\* The voice a marker names: one lookup in the table, else the name itself
ResolveVoice(aliases, name) ==
    IF name \in DictKeys(aliases) THEN DictGet(aliases, name) ELSE name

\* ------------------------------------------------------------------ segments
NoVoice == ""

CloseSpan_Mut(segments, voice, text) ==
    IF Strip(text) # <<>>
    THEN Append(segments, [voice |-> voice, text |-> Strip(text)])
    ELSE segments

\* The span of the current voice ends: one segment when its trimmed text is
\* not empty; text under no voice is discarded
CloseSpan(segments, voice, text) ==
    IF voice # NoVoice /\ Strip(text) # <<>>
    THEN Append(segments, [voice |-> voice, text |-> Strip(text)])
    ELSE segments

\* Voice-switch segmentation of one section span
RECURSIVE Segmentation(_, _, _, _, _)
Segmentation(span, aliases, voice, text, segments) ==
    IF span = <<>> THEN CloseSpan(segments, voice, text)
    ELSE LET item == Head(span) IN
         IF item.kind = "voice"
         THEN Segmentation(Tail(span), aliases,
                           ResolveVoice(aliases, item.name), <<>>,
                           CloseSpan(segments, voice, text))
         ELSE IF item.kind = "text"
         THEN Segmentation(Tail(span), aliases, voice, text \o item.text,
                           segments)
         ELSE Segmentation(Tail(span), aliases, voice, text, segments)

\* ------------------------------------------------------------------ sections
\* The items of a span: up to the next heading of any level
RECURSIVE SpanOf(_)
SpanOf(items) ==
    IF items = <<>> \/ Head(items).kind = "heading" THEN <<>>
    ELSE <<Head(items)>> \o SpanOf(Tail(items))

SectionRetained_Mut(segments) == TRUE

\* A candidate section with no segment is dropped
SectionRetained(segments) == segments # <<>>

RECURSIVE SectionsOf(_, _)
SectionsOf(items, aliases) ==
    IF items = <<>> THEN <<>>
    ELSE IF Head(items).kind # "heading" THEN SectionsOf(Tail(items), aliases)
    ELSE LET segments ==
                 Segmentation(SpanOf(Tail(items)), aliases, NoVoice, <<>>, <<>>)
             section ==
                 [title |-> Head(items).text,
                  file_path |-> IF Head(items).file # NoFile
                                THEN Head(items).file
                                ELSE generate_filename_from_title(Head(items).text),
                  segments |-> segments]
         IN  (IF SectionRetained(segments) THEN <<section>> ELSE <<>>)
             \o SectionsOf(Tail(items), aliases)

\* parse(document_text) -> (AliasTable, ordered list of Section)
process_markdown(markdown_text) ==
    LET aliases == CollectAliases(markdown_text, <<>>)
    IN  [aliases |-> aliases, sections |-> SectionsOf(markdown_text, aliases)]

\* ------------------------------------------------------------------ inputs
ItemDomain ==
    {Heading(1, <<"I">>), Heading(2, <<"S">>),
     AliasDef("A", "B"), AliasDef("B", "C"),
     VoiceMark("A"), VoiceMark("B"),
     Text(<<" ">>), Text(<<" ", "x", " ">>)}

RECURSIVE DocsOf(_)
DocsOf(n) ==
    IF n = 0 THEN {<<>>}
    ELSE LET shorter == DocsOf(n - 1)
         IN  shorter \cup { Append(d, it) : d \in shorter, it \in ItemDomain }

\* ------------------------------------------------------------------ actions
InitParse ==
    /\ OrchestratorIdle
    /\ CliIdle
    /\ SlideTextIdle
    /\ stage = "document"
    /\ doc \in DocsOf(MaxDocLen)
    /\ parsed = [aliases |-> <<>>, sections |-> <<>>]
    /\ title = <<>>
    /\ filename = <<>>
    /\ headings = <<>>
    /\ md_sections = <<>>
    /\ deck = <<>>
    /\ default_voice_name = ""
    /\ include_empty_notes = FALSE
    /\ include_slide_titles = FALSE
    /\ overwrite_script = FALSE
    /\ script = NoScript
    /\ ppt_log = <<>>

\* The Section objects as lines 60-94 read them: file_path is a path,
\* absolute when it starts with "/"
SectionObjects(secs) ==
    [k \in DOMAIN secs |->
        [file_path |-> [abs |-> /\ secs[k].file_path # <<>>
                                /\ Head(secs[k].file_path) = "/",
                        comps |-> <<secs[k].file_path>>],
         segments |-> secs[k].segments]]

\* Line 51 with the process_markdown of the inline dialect behind it: the
\* parser is applied to the document and (aliases, sections) are bound to
\* what it returned
ParseInline ==
    /\ stage = "document"
    /\ parsed' = process_markdown(doc)
    /\ sections' = SectionObjects(process_markdown(doc).sections)
    /\ pc' = "start"
    /\ stage' = "parsed"
    /\ UNCHANGED <<overwrite_audio, run, locals, results, ret, exc, env, logs,
                   slide_text, cli, doc, title, filename, headings, md_sections,
                   deck, default_voice_name, include_empty_notes,
                   include_slide_titles, overwrite_script, script, ppt_log>>

\* src/markdown_parser.py lines 89-107 and 115-143: process_markdown
\* returns a list with one MarkdownSection per heading line; of the
\* documents modelled, the heading items are the lines heading_pattern
\* matches
HeadingLines(markdown_text) ==
    SelectSeq(markdown_text, LAMBDA item : item.kind = "heading")

\* mutant: the unpacking succeeds whatever the length of the list
Unpacks_Mut(lst) == TRUE

\* line 51, "aliases, sections = <list>": two names are bound, so the
\* statement succeeds on a list of exactly two elements and raises
\* ValueError on any other
Unpacks(lst) == Len(lst) = 2

\* process_markdown_document lines 49-60 and 156-158 with the
\* process_markdown of src/markdown_parser.py.  Line 51 unpacks the list
\* into (aliases, sections): a list of any length but two raises
\* ValueError; a list of two binds sections to one MarkdownSection, which
\* is true at line 53, output_dir is created (line 57) and enumerate
\* raises TypeError at line 60.  The except of line 156 returns {}.
ParseDocument ==
    /\ stage = "document"
    /\ dirs' = IF Unpacks(HeadingLines(doc))
               THEN dirs \cup {abspath(OutputDir)}
               ELSE dirs
    /\ ret' = <<>>
    /\ exc' = TRUE
    /\ pc' = "done"
    /\ stage' = "returned"
    /\ UNCHANGED <<sections, overwrite_audio, run, locals, results, fs, tmp, logs,
                   slide_text, cli, doc, parsed, title, filename, headings,
                   md_sections, deck, default_voice_name, include_empty_notes,
                   include_slide_titles, overwrite_script, script, ppt_log>>

\* ------------------------------------------------------------------ inputs
\* The documents process_markdown_document is run on: an alias definition,
\* then up to MaxSections headings, each followed by voice markers with
\* their text, at most MaxTotalSegs markers in all.  A heading may carry a
\* file annotation with an absolute path.  The markers of a section run
\* through three kinds of span in turn, starting from any of them: a voice
\* with text, an alias with text, a voice followed by blank text.
AbsFile == <<"/", "b", ".", "m", "p", "3">>

OrchHeadings == {Heading(2, <<"S">>), HeadingAt(2, <<"T">>, AbsFile)}

OrchSpans ==
    << <<VoiceMark("V1"), Text(<<"H", "i">>)>>,
       <<VoiceMark("A"), Text(<<" ", "W", "o">>)>>,
       <<VoiceMark("V1"), Text(<<" ", " ">>)>> >>

\* m markers, the first one of kind first
RECURSIVE OrchBody(_, _)
OrchBody(first, m) ==
    IF m = 0 THEN <<>>
    ELSE OrchSpans[first] \o OrchBody((first % Len(OrchSpans)) + 1, m - 1)

\* n headings with at most t markers in all
RECURSIVE OrchBodies(_, _)
OrchBodies(n, t) ==
    IF n = 0 THEN { <<>> }
    ELSE UNION { { <<h>> \o OrchBody(first, m) \o rest :
                      h \in OrchHeadings, first \in DOMAIN OrchSpans,
                      rest \in OrchBodies(n - 1, t - m) } : m \in 0..t }

OrchDocs ==
    { <<AliasDef("A", "V2")>> \o body :
        body \in UNION { OrchBodies(n, MaxTotalSegs) : n \in 0..MaxSections } }

\* ------------------------------------------------------------------ specs
\* process_markdown_document has been called on a document; output_dir may
\* hold an audio file already
Init ==
    /\ sections = <<>>
    /\ overwrite_audio \in BOOLEAN
    /\ run = 1
    /\ pc = "idle"
    /\ i = 0
    /\ j = 0
    /\ output_path = NoPath
    /\ temp_files = <<>>
    /\ segment_success = <<>>
    /\ results = <<>>
    /\ ret = <<>>
    /\ exc = FALSE
    /\ \E S \in SUBSET InitialFiles : fs = [p \in S |-> OldAudio]
    /\ dirs = {}
    /\ tmp = <<>>
    /\ calls = <<>>
    /\ writes = <<>>
    /\ checks = <<>>
    /\ done_log = <<>>
    /\ CliIdle
    /\ SlideTextIdle
    /\ stage = "document"
    /\ doc \in OrchDocs
    /\ parsed = [aliases |-> <<>>, sections |-> <<>>]
    /\ title = <<>>
    /\ filename = <<>>
    /\ headings = <<>>
    /\ md_sections = <<>>
    /\ deck = <<>>
    /\ default_voice_name = ""
    /\ include_empty_notes = FALSE
    /\ include_slide_titles = FALSE
    /\ overwrite_script = FALSE
    /\ script = NoScript
    /\ ppt_log = <<>>

\* process_markdown_document from its call to its return, with either
\* parser behind line 51
Next ==
    \/ ParseDocument
    \/ ParseInline
    \/ ReturnEmpty
    \/ Start
    \/ SkipExisting
    \/ BeginSection
    \/ SynthesizeOk
    \/ SynthesizeFail
    \/ SynthesizeRaise
    \/ ConcatOk
    \/ ConcatFail
    \/ SectionFailed
    \/ Finish

Spec == Init /\ [][Next]_vars

\* After a run that wrote an output file, process_markdown_document is invoked
\* again on the same document with overwrite_audio=False, and line 51 binds
\* the sections of that document again; files, directories and leftover temp
\* files persist between invocations
Rerun ==
    /\ pc = "done"
    /\ run = 1
    /\ writes # <<>>
    /\ run' = run + 1
    /\ overwrite_audio' = FALSE
    /\ pc' = "start"
    /\ i' = 0
    /\ j' = 0
    /\ output_path' = NoPath
    /\ temp_files' = <<>>
    /\ segment_success' = <<>>
    /\ results' = <<>>
    /\ ret' = <<>>
    /\ exc' = FALSE
    /\ UNCHANGED <<frontend, sections, env, logs>>

\* Two invocations in a row with overwrite_audio=False, the first one starting
\* without any output file
InitTwice == Init /\ DOMAIN fs = {} /\ ~overwrite_audio

NextTwice == Next \/ Rerun

SpecTwice == InitTwice /\ [][NextTwice]_vars

\* process_powerpoint from its call to its return, process_markdown_document
\* included; no audio file exists beforehand
NextDeckRun ==
    \/ UseExistingScript
    \/ ExtractAndSave
    \/ ExtractSaveFailed
    \/ ExtractFailed
    \/ ParseDocument
    \/ ParseInline
    \/ ReturnEmpty
    \/ Start
    \/ BeginSection
    \/ SynthesizeOk
    \/ SynthesizeFail
    \/ SynthesizeRaise
    \/ ConcatOk
    \/ ConcatFail
    \/ SectionFailed
    \/ Finish

SpecDeckRun == InitDeck /\ [][NextDeckRun]_vars

NextParse == ParseInline

SpecParse == InitParse /\ [][NextParse]_vars

NextDeck ==
    \/ UseExistingScript
    \/ ExtractAndSave
    \/ ExtractSaveFailed
    \/ ExtractFailed
    \/ ParseDocument

SpecDeck == InitDeck /\ [][NextDeck]_vars

\* process_powerpoint with the parser of the inline dialect behind line 233
NextDeckInline ==
    \/ UseExistingScript
    \/ ExtractAndSave
    \/ ExtractSaveFailed
    \/ ExtractFailed
    \/ ParseInline

SpecDeckInline == InitDeck /\ [][NextDeckInline]_vars

TypeFront == stage \in {"idle", "title", "named", "headings", "sectioned",
                        "text", "clean",
                        "powerpoint", "document", "parsed", "returned"}

\* ------------------------------------------------------------------ claims
\* The grammar of the specification read position by position in the
\* document, independently of the parser's traversal.
RefMin(S) == CHOOSE k \in S : \A m \in S : k <= m

RefMax(S) == CHOOSE k \in S : \A m \in S : m <= k

RefTrim(t) ==
    LET solid == { k \in DOMAIN t : ~IsSpace(t[k]) }
    IN  IF solid = {} THEN <<>> ELSE SubSeq(t, RefMin(solid), RefMax(solid))

RefHeadings(d) == { k \in DOMAIN d : d[k].kind = "heading" }

RefSpanEnd(d, h) ==
    LET later == { k \in RefHeadings(d) : k > h }
    IN  IF later = {} THEN Len(d) ELSE RefMin(later) - 1

RefMarkers(d, h) == { m \in (h + 1)..RefSpanEnd(d, h) : d[m].kind = "voice" }

RefReach(d, h, m) ==
    LET later == { k \in RefMarkers(d, h) : k > m }
    IN  IF later = {} THEN RefSpanEnd(d, h) ELSE RefMin(later) - 1

RECURSIVE RefText(_, _, _)
RefText(d, a, b) ==
    IF a > b THEN <<>>
    ELSE (IF d[a].kind = "text" THEN d[a].text ELSE <<>>) \o RefText(d, a + 1, b)

RefSpoken(d, h, m) == RefTrim(RefText(d, m + 1, RefReach(d, h, m)))

\* the markers of the span of heading h that are followed by non-blank text
RefLive(d, h) == { m \in RefMarkers(d, h) : RefSpoken(d, h, m) # <<>> }

RECURSIVE RefSorted(_)
RefSorted(S) ==
    IF S = {} THEN <<>> ELSE <<RefMin(S)>> \o RefSorted(S \ {RefMin(S)})

\* the headings that have such a marker, in document order
RefKeptHeadings(d) == RefSorted({ h \in RefHeadings(d) : RefLive(d, h) # {} })

\* alias definitions strictly before the first heading of level >= 2
RefPreamble(d) ==
    { k \in DOMAIN d :
        /\ d[k].kind = "alias"
        /\ \A q \in 1..k : ~(d[q].kind = "heading" /\ d[q].level >= 2) }

RefAliasNames(d) == { d[k].name : k \in RefPreamble(d) }

RefTarget(d, name) ==
    d[RefMax({ k \in RefPreamble(d) : d[k].name = name })].target

RefResolve(d, name) ==
    IF name \in RefAliasNames(d) THEN RefTarget(d, name) ELSE name

\* C6: the returned map has as many entries as the parser returned sections,
\* and the value under a section's output path is that section's own outcome.
\* The parser of src/markdown_parser.py returns one section per heading line.
C6_OneEntryPerSection ==
    pc = "done" =>
        /\ stage = "returned" => Len(ret) = Cardinality(RefHeadings(doc))
        /\ stage = "parsed" =>
              /\ Len(ret) = Len(sections)
              /\ \A k \in DoneOf(run) :
                    /\ done_log[k].path \in DictKeys(ret)
                    /\ DictGet(ret, done_log[k].path) = done_log[k].val

C11_SectionInvariant ==
    stage = "parsed" =>
        /\ \A k \in DOMAIN parsed.sections :
              /\ Len(parsed.sections[k].segments) >= 1
              /\ \A q \in DOMAIN parsed.sections[k].segments :
                    RefTrim(parsed.sections[k].segments[q].text) # <<>>
        /\ Len(parsed.sections) = Len(RefKeptHeadings(doc))
        /\ \A k \in DOMAIN parsed.sections :
              parsed.sections[k].title = doc[RefKeptHeadings(doc)[k]].text

C11_Witness ==
    /\ stage = "parsed"
    /\ Len(parsed.sections) = 1
    /\ Cardinality(RefHeadings(doc)) = 2
    /\ \E h \in RefHeadings(doc) : RefMarkers(doc, h) # {} /\ RefLive(doc, h) = {}

\* C12: in every returned section the segments are, in source order, one per
\* marker of the span that is followed by non-blank text: its text is the
\* trimmed text between that marker and the next marker or the end of the
\* span, its voice the one the marker sets; text before the first marker and
\* markers followed by blank text give no segment.
C12_Segmentation ==
    stage = "parsed" =>
        /\ Len(parsed.sections) = Len(RefKeptHeadings(doc))
        /\ \A k \in DOMAIN parsed.sections :
              LET h == RefKeptHeadings(doc)[k]
                  live == RefSorted(RefLive(doc, h))
                  segs == parsed.sections[k].segments
              IN  /\ Len(segs) = Cardinality(RefLive(doc, h))
                  /\ \A q \in DOMAIN segs :
                        /\ segs[q].text = RefSpoken(doc, h, live[q])
                        /\ segs[q].voice = RefResolve(doc, doc[live[q]].name)

\* one span: text, a live marker, a marker followed by blank text, a live one
C12_Witness ==
    /\ stage = "parsed"
    /\ doc = <<Heading(2, <<"S">>), Text(<<" ", "x", " ">>), VoiceMark("A"),
               Text(<<" ", "x", " ">>), VoiceMark("B")>>
    /\ Len(parsed.sections) = 1
    /\ parsed.sections[1].segments = <<[voice |-> "A", text |-> <<"x">>]>>

\* C13: the voice handed to the backend for a segment is the value of the
\* marker's name in the alias table when the name is a key, even when that
\* value is itself a key, and the name itself otherwise.
C13_SingleHop ==
    stage = "parsed" =>
        /\ Len(parsed.sections) = Len(RefKeptHeadings(doc))
        /\ \A k \in DOMAIN parsed.sections :
              LET h == RefKeptHeadings(doc)[k]
                  live == RefSorted(RefLive(doc, h))
                  segs == parsed.sections[k].segments
              IN  /\ Len(segs) = Len(live)
                  /\ \A q \in DOMAIN segs :
                        LET name == doc[live[q]].name IN
                        IF name \in RefAliasNames(doc)
                        THEN VoiceName(segs[q]) = RefTarget(doc, name)
                        ELSE VoiceName(segs[q]) = name

\* A=B and B=C are both in the table and a marker names A
C13_Witness ==
    /\ stage = "parsed"
    /\ RefAliasNames(doc) = {"A", "B"}
    /\ RefTarget(doc, "A") = "B" /\ RefTarget(doc, "B") = "C"
    /\ \E k \in DOMAIN parsed.sections :
          \E q \in DOMAIN parsed.sections[k].segments :
             /\ doc[RefSorted(RefLive(doc, RefKeptHeadings(doc)[k]))[q]].name = "A"
             /\ VoiceName(parsed.sections[k].segments[q]) = "B"

\* C14: the alias table holds exactly the definitions that stand before the
\* first heading of level 2 or deeper, with their targets; they resolve the
\* markers of every section, and a name defined only later stays literal.
C14_AliasScope ==
    stage = "parsed" =>
        /\ DictKeys(parsed.aliases) = RefAliasNames(doc)
        /\ \A name \in RefAliasNames(doc) :
              DictGet(parsed.aliases, name) = RefTarget(doc, name)
        /\ \A k \in DOMAIN parsed.sections :
              \A q \in DOMAIN parsed.sections[k].segments :
                 parsed.sections[k].segments[q].voice
                    \in { RefResolve(doc, doc[m].name) :
                            m \in RefLive(doc, RefKeptHeadings(doc)[k]) }
        /\ \A k \in DOMAIN doc :
              (doc[k].kind = "alias" /\ k \notin RefPreamble(doc)
                 /\ doc[k].name \notin RefAliasNames(doc))
              => doc[k].name \notin DictKeys(parsed.aliases)

\* a definition after the first level-2 heading, and a marker using its name
C14_Witness ==
    /\ stage = "parsed"
    /\ doc = <<AliasDef("B", "C"), Heading(2, <<"S">>), AliasDef("A", "B"),
               VoiceMark("A"), Text(<<" ", "x", " ">>)>>
    /\ parsed.aliases = <<[key |-> "B", val |-> "C"]>>
    /\ parsed.sections[1].segments = <<[voice |-> "A", text |-> <<"x">>]>>

\* The adapter's contract read from the deck, independently of its loop.
\* process_presentation has returned a document
Generated ==
    \E e \in DOMAIN ppt_log :
        ppt_log[e].op = "process_presentation" /\ ppt_log[e].ok

RefRetainedSlides == { k \in DOMAIN deck : deck[k].notes # <<>> \/ include_empty_notes }

RefSlideHeading(k) ==
    Heading(2, <<"S", "l", "i", "d", "e", " ">> \o <<DigitOf(k)>>
               \o (IF deck[k].title # <<>> /\ include_slide_titles
                   THEN <<" ", "-", " ">> \o deck[k].title ELSE <<>>))

RefDirectives == { k \in DOMAIN doc : doc[k].kind = "voice" }

RefSlideHeadings == { k \in DOMAIN doc : doc[k].kind = "heading" /\ doc[k].level = 2 }

\* C17 as stated: the emitted document contains exactly one voice-switch
\* directive, directly after the heading of the first retained slide, naming
\* the default voice.
C17_ExactlyOneDirective ==
    Generated =>
        /\ Cardinality(RefDirectives) = 1
        /\ \A k \in RefDirectives :
              /\ k = RefMin(RefSlideHeadings) + 1
              /\ doc[k] = VoiceMark(default_voice_name)

\* C17 amended: the emitted document contains at most one voice-switch
\* directive; it contains one exactly when a slide is retained and the
\* default voice is not empty, and then the directive stands directly after
\* the heading of the first retained slide and names the default voice.
C17_AtMostOneDirective ==
    Generated =>
        /\ Cardinality(RefDirectives) =
              (IF RefRetainedSlides # {} /\ default_voice_name # "" THEN 1 ELSE 0)
        /\ \A k \in RefDirectives :
              /\ k = RefMin(RefSlideHeadings) + 1
              /\ doc[k] = VoiceMark(default_voice_name)

\* two retained slides, the first skipped: one directive, on slide 2
C17_Witness ==
    /\ Generated
    /\ Len(deck) = 3 /\ ~include_empty_notes
    /\ deck[1].notes = <<>> /\ deck[2].notes # <<>> /\ deck[3].notes # <<>>
    /\ RefDirectives = {3}
    /\ doc[3] = VoiceMark("Narrator")
    /\ Cardinality(RefSlideHeadings) = 2

\* C18: fed to the parser, the adapter's document yields one section per slide
\* that has notes, each with exactly one segment whose voice is the default
\* voice and whose text is the slide's notes.
C18_OneSectionPerSlide ==
    (Generated /\ stage = "parsed" /\ default_voice_name # "") =>
        LET noted == RefSorted({ k \in DOMAIN deck : deck[k].notes # <<>> })
        IN  /\ Len(parsed.sections) = Len(noted)
            /\ \A k \in DOMAIN parsed.sections :
                  parsed.sections[k].segments =
                      << [voice |-> default_voice_name,
                          text |-> deck[noted[k]].notes] >>

\* C19: the emitted document starts with one level-1 heading carrying the
\* deck's name, followed by one level-2 heading per retained slide in deck
\* order and no other heading; a slide without notes is retained only under
\* include_empty_notes; the heading reads "Slide N - <title>" when the slide
\* has a title and include_slide_titles is set, "Slide N" otherwise, N being
\* the slide's position in the deck.
C19_Headings ==
    Generated =>
        LET kept == RefSorted(RefRetainedSlides)
            heads == SelectSeq(doc, LAMBDA it : it.kind = "heading")
        IN  /\ doc[1] = Heading(1, ppt_name_without_ext)
            /\ Len(heads) = 1 + Len(kept)
            /\ \A k \in DOMAIN kept : heads[k + 1] = RefSlideHeading(kept[k])

C19_Witness ==
    /\ Generated
    /\ Len(deck) = 3 /\ ~include_empty_notes /\ include_slide_titles
    /\ deck[1].notes # <<>> /\ deck[1].title = <<>>
    /\ deck[2].notes = <<>>
    /\ deck[3].notes # <<>> /\ deck[3].title = <<"T">>
    /\ SelectSeq(doc, LAMBDA it : it.kind = "heading") =
          << Heading(1, <<"D", " ", "T">>),
             Heading(2, <<"S", "l", "i", "d", "e", " ", "1">>),
             Heading(2, <<"S", "l", "i", "d", "e", " ", "3", " ", "-", " ", "T">>) >>

\* C20: when process_markdown_document is called, either the script existed
\* and overwrite_script was false, and then process_presentation was not
\* called, the script is unchanged and the text processed is the script's;
\* or the adapter's document was extracted and the script holds it.
C20_ScriptReuse ==
    (\E e \in DOMAIN ppt_log : ppt_log[e].op = "process_markdown_document") =>
        IF ppt_log[1].ok /\ ~overwrite_script
        THEN /\ \A e \in DOMAIN ppt_log : ppt_log[e].op # "process_presentation"
             /\ script = [ex |-> TRUE, text |-> OldScript]
             /\ doc = OldScript
        ELSE /\ \E e \in DOMAIN ppt_log :
                   /\ ppt_log[e].op = "process_presentation"
                   /\ ppt_log[e].text = doc
             /\ script = [ex |-> TRUE, text |-> doc]

RefOpenAt(hs, k, l) ==
    LET at == { m \in 1..(k - 1) :
                  /\ hs[m].level = l
                  /\ \A q \in (m + 1)..(k - 1) : hs[q].level >= l }
    IN  IF at = {} THEN <<>> ELSE << hs[RefMax(at)].title >>

RECURSIVE RefAncestors(_, _, _)
RefAncestors(hs, k, l) ==
    IF l = 0 THEN <<>>
    ELSE RefAncestors(hs, k, l - 1) \o RefOpenAt(hs, k, l)

\* C30: the file path derived for a heading without a file annotation is
\* built from the titles of its open ancestors, shallowest first, followed by
\* its own title, and from no other title.
C30_OnlyOpenAncestors ==
    stage = "sectioned" =>
        \A k \in DOMAIN headings :
            headings[k].file_path = NoFile =>
                md_sections[k].file_path =
                    RefDerive(JoinUnderscore(
                        RefAncestors(headings, k, headings[k].level - 1)
                            \o <<headings[k].title>>))

\* =================================================================
\* PowerPointProcessor._sanitize_text
\* =================================================================
\* The sanitization the specification describes, position by position:
\* control characters other than newline and tab, zero-width marks and
\* decorative glyphs are deleted, a run of whitespace becomes one space.
RefDeleted(c) == c = Ctl \/ c \in ZeroWidth \cup Glyphs

RefWhite(c) == c \in {" ", "\n", "\t", Nbsp}

RefBefore(t, k) ==
    LET before == { m \in 1..(k - 1) : ~RefDeleted(t[m]) }
    IN  IF before = {} THEN 0 ELSE RefMax(before)

RECURSIVE RefCollapse(_, _)
RefCollapse(t, k) ==
    IF k > Len(t) THEN <<>>
    ELSE (IF RefDeleted(t[k]) THEN <<>>
          ELSE IF ~RefWhite(t[k]) THEN <<t[k]>>
          ELSE IF RefBefore(t, k) # 0 /\ RefWhite(t[RefBefore(t, k)]) THEN <<>>
          ELSE <<" ">>)
         \o RefCollapse(t, k + 1)

\* C25 as stated: the sanitized text is the text without the deleted
\* characters, every run of whitespace replaced by a single space.
C25_Sanitize ==
    stage = "clean" => sanitized = RefCollapse(raw_text, 1)

\* C25 amended: the sanitized text is the text without the deleted
\* characters, every run of whitespace (newline, tab and non-breaking space
\* included) replaced by a single space, and without leading and trailing
\* whitespace.
C25_SanitizeTrimmed ==
    stage = "clean" => sanitized = RefTrim(RefCollapse(raw_text, 1))

C25_Witness ==
    /\ stage = "clean"
    /\ raw_text = <<"U+200B", " ", "a", "\n">>
    /\ sanitized = <<"a">>

\* =================================================================
\* test_voices (src/main.py)
\* =================================================================
\* The orchestrator, the parsers and the adapter are not running
PipelineIdle ==
    /\ OrchestratorIdle
    /\ SlideTextIdle
    /\ stage = "idle"
    /\ doc = <<>>
    /\ parsed = [aliases |-> <<>>, sections |-> <<>>]
    /\ title = <<>>
    /\ filename = <<>>
    /\ headings = <<>>
    /\ md_sections = <<>>
    /\ deck = <<>>
    /\ default_voice_name = ""
    /\ include_empty_notes = FALSE
    /\ include_slide_titles = FALSE
    /\ overwrite_script = FALSE
    /\ script = NoScript
    /\ ppt_log = <<>>

pipeline ==
    <<orchestrator, slide_text, stage, doc, parsed, title, filename, headings,
      md_sections, deck, default_voice_name, include_empty_notes,
      include_slide_titles, overwrite_script, script, ppt_log>>

\* ----------------------------------------------------------- test_voices
MaxVoices == 2

\* Voice ids as the voice-list file gives them once comments and blank
\* lines are dropped (lines 189-195)
VoiceIdDomain == {<<"v">>, <<"a", "/", "b">>, <<"a", "_", "b">>}

VoiceIdLists ==
    UNION { [1..n -> VoiceIdDomain] : n \in 0..MaxVoices }

\* line 227
SafeFilename(voice_id) ==
    [ci \in DOMAIN voice_id |->
        IF voice_id[ci] \in {"/", "\\", ":"} THEN "_" ELSE voice_id[ci]]

\* line 228, below output_dir
OutputFile(voice_id) ==
    <<"voice_test_">> \o SafeFilename(voice_id) \o <<".mp3">>

\* line 222
Unavailable(voice_id) ==
    available_voices # {} /\ voice_id \notin available_voices

InitVoices ==
    /\ PipelineIdle
    /\ config = NoConfig
    /\ argv = <<>>
    /\ main_pc = "idle"
    /\ main_log = <<>>
    /\ voice_ids \in VoiceIdLists
    /\ available_voices = {}
    /\ tv_pc = "start"
    /\ tv_k = 0
    /\ tv_results = <<>>
    /\ tv_calls = <<>>

\* lines 172-174: output_dir is "voice_test" and is created
TvStart ==
    /\ tv_pc = "start"
    /\ dirs' = dirs \cup {abspath([abs |-> FALSE, comps |-> <<"voice_test">>])}
    /\ tv_pc' = "read"
    /\ UNCHANGED <<sections, overwrite_audio, run, pc, locals, results, ret, exc,
                   fs, tmp, logs, slide_text, stage, doc, parsed, title,
                   filename, headings, md_sections, deck, default_voice_name,
                   include_empty_notes, include_slide_titles, overwrite_script,
                   script, ppt_log, config, argv, main_pc, main_log, voice_ids,
                   available_voices, tv_k, tv_results, tv_calls>>

\* lines 181-183, 198-200: the text file or the voice list cannot be read
TvReadError ==
    /\ tv_pc = "read"
    /\ tv_pc' = "done"
    /\ UNCHANGED <<pipeline, config, argv, main_pc, main_log, voice_ids,
                   available_voices, tv_k, tv_results, tv_calls>>

\* lines 203-211: both the name and the id of every voice become keys
TvGetVoices ==
    /\ tv_pc = "read"
    /\ \E avail \in SUBSET VoiceIdDomain : available_voices' = avail
    /\ tv_pc' = "loop"
    /\ tv_k' = 1
    /\ UNCHANGED <<pipeline, config, argv, main_pc, main_log, voice_ids,
                   tv_results, tv_calls>>

\* lines 212-214: get_voices raises, the voices are tried as provided
TvGetVoicesRaise ==
    /\ tv_pc = "read"
    /\ available_voices' = {}
    /\ tv_pc' = "loop"
    /\ tv_k' = 1
    /\ UNCHANGED <<pipeline, config, argv, main_pc, main_log, voice_ids,
                   tv_results, tv_calls>>

\* lines 222-224
TvSkipUnavailable ==
    /\ tv_pc = "loop"
    /\ tv_k <= Len(voice_ids)
    /\ Unavailable(voice_ids[tv_k])
    /\ tv_k' = tv_k + 1
    /\ UNCHANGED <<pipeline, config, argv, main_pc, main_log, voice_ids,
                   available_voices, tv_pc, tv_results, tv_calls>>

\* lines 227-246 for one voice; outcome is what text_to_speech did.  A
\* backend that returns True has written the audio to output_path; one
\* that fails has left output_path alone or has created or truncated it
\* (tts_elevenlabs.py lines 127-128, tts_azure.py line 201)
TvSynthesize(outcome) ==
    /\ tv_pc = "loop"
    /\ tv_k <= Len(voice_ids)
    /\ ~Unavailable(voice_ids[tv_k])
    /\ LET output_file == OutputFile(voice_ids[tv_k])
           target == abspath([abs |-> FALSE,
                              comps |-> <<"voice_test", output_file>>])
       IN
         /\ tv_calls' = Append(tv_calls,
               [k |-> tv_k, voice_name |-> voice_ids[tv_k],
                output_path |-> output_file, outcome |-> outcome])
         /\ tv_results' = DictSet(tv_results, output_file, outcome = "true")
         /\ \E opened \in BOOLEAN :
               fs' = IF outcome = "true"
                     THEN [p \in DOMAIN fs \cup {target} |->
                              IF p = target
                              THEN <<[text |-> <<"t">>, voice |-> voice_ids[tv_k]]>>
                              ELSE fs[p]]
                     ELSE IF opened
                     THEN [p \in DOMAIN fs \cup {target} |->
                              IF p = target THEN <<>> ELSE fs[p]]
                     ELSE fs
    /\ tv_k' = tv_k + 1
    /\ UNCHANGED <<sections, overwrite_audio, run, pc, locals, results, ret, exc,
                   dirs, tmp, logs, slide_text, stage, doc, parsed, title,
                   filename, headings, md_sections, deck, default_voice_name,
                   include_empty_notes, include_slide_titles, overwrite_script,
                   script, ppt_log, config, argv, main_pc, main_log, voice_ids,
                   available_voices, tv_pc>>

TvSynthOk == TvSynthesize("true")

TvSynthFail == TvSynthesize("false")

TvSynthRaise == TvSynthesize("raise")

\* line 252
TvReturn ==
    /\ tv_pc = "loop"
    /\ tv_k > Len(voice_ids)
    /\ tv_pc' = "done"
    /\ UNCHANGED <<pipeline, config, argv, main_pc, main_log, voice_ids,
                   available_voices, tv_k, tv_results, tv_calls>>

NextVoices ==
    \/ TvStart
    \/ TvReadError
    \/ TvGetVoices
    \/ TvGetVoicesRaise
    \/ TvSkipUnavailable
    \/ TvSynthOk
    \/ TvSynthFail
    \/ TvSynthRaise
    \/ TvReturn

SpecVoices == InitVoices /\ [][NextVoices]_vars

\* C26: when test_voices returns after reading both files, the returned map
\* has, for every voice id of the voice list, an entry keyed by that voice's
\* output file, true exactly when text_to_speech returned true for that voice.
C26_SignalPerVoice ==
    (tv_pc = "done" /\ tv_k > 0) =>
        \A k \in DOMAIN voice_ids :
            /\ OutputFile(voice_ids[k]) \in DictKeys(tv_results)
            /\ DictGet(tv_results, OutputFile(voice_ids[k])) =
                 (\E c \in DOMAIN tv_calls :
                     tv_calls[c].k = k /\ tv_calls[c].outcome = "true")

\* =================================================================
\* process_markdown_document end to end: parser, then orchestrator, with a
\* synthesizer that always succeeds
\* =================================================================
\* "[alias:A=Voice1]\n## S1\n[voice:A] Hello. [voice:Voice2] World."
ScenarioDoc ==
    <<AliasDef("A", "Voice1"), Heading(2, <<"S", "1">>),
      VoiceMark("A"), Text(<<" ", "H", "e", "l", "l", "o", ".", " ">>),
      VoiceMark("Voice2"), Text(<<" ", "W", "o", "r", "l", "d", ".">>)>>

\* The documents made of some of the items of d, in their order
RECURSIVE SubDocs(_)
SubDocs(d) ==
    IF d = <<>> THEN {<<>>}
    ELSE LET rest == SubDocs(Tail(d))
         IN  rest \cup { <<Head(d)>> \o r : r \in rest }

InitE2E ==
    /\ OrchestratorWaiting
    /\ overwrite_audio \in BOOLEAN
    /\ CliIdle
    /\ SlideTextIdle
    /\ stage = "document"
    /\ doc \in SubDocs(ScenarioDoc)
    /\ parsed = [aliases |-> <<>>, sections |-> <<>>]
    /\ title = <<>>
    /\ filename = <<>>
    /\ headings = <<>>
    /\ md_sections = <<>>
    /\ deck = <<>>
    /\ default_voice_name = ""
    /\ include_empty_notes = FALSE
    /\ include_slide_titles = FALSE
    /\ overwrite_script = FALSE
    /\ script = NoScript
    /\ ppt_log = <<>>

\* text_to_speech returns True for every segment and the temp files are
\* readable; no output file exists beforehand
NextE2E ==
    \/ ParseDocument
    \/ ParseInline
    \/ ReturnEmpty
    \/ Start
    \/ BeginSection
    \/ SynthesizeOk
    \/ ConcatOk
    \/ Finish

SpecE2E == InitE2E /\ [][NextE2E]_vars

RefHello == <<"H", "e", "l", "l", "o", ".">>
RefWorld == <<"W", "o", "r", "l", "d", ".">>

\* C22: the document [alias:A=Voice1] / ## S1 / [voice:A] Hello.
\* [voice:Voice2] World., run with a synthesizer that always succeeds, yields
\* exactly one section titled S1 with the segments (Voice1, "Hello.") and
\* (Voice2, "World.") in that order, two synthesis calls in that order, and
\* a returned map with exactly one entry, whose value is true.
C22_EndToEnd ==
    (doc = ScenarioDoc /\ pc = "done") =>
        /\ Len(parsed.sections) = 1
        /\ parsed.sections[1].title = <<"S", "1">>
        /\ parsed.sections[1].segments =
              << [voice |-> "Voice1", text |-> RefHello],
                 [voice |-> "Voice2", text |-> RefWorld] >>
        /\ Len(calls) = 2
        /\ calls[1].voice = "Voice1" /\ calls[1].text = RefHello
        /\ calls[2].voice = "Voice2" /\ calls[2].text = RefWorld
        /\ ~exc
        /\ Len(ret) = 1
        /\ ret[1].val = TRUE

\* =================================================================
\* main (src/main.py): configuration, dispatch, and what it calls
\* =================================================================
\* slides of the presentation handed to process_powerpoint_demo
MaxDemoSlides == 1

\* The section of config.yaml of the selected service; "" is a missing value
Configs ==
    [service : {"azure", "elevenlabs"},
     api_key : {"", "key", "your_api_key_here"},
     region : {"", "westeurope"},
     voice_name : {"", "Aria"}]

\* sys.argv[1:] after lines 457-460
Argvs ==
    { <<>>, <<"--help">>, <<"-h">>, <<"--unknown">>,
      <<"--ppt", "D T.pptx">>,
      <<"--powerpoint", "D T.pptx", "--overwrite-script">>,
      <<"--ppt", "D T.pptx", "--no-titles", "--overwrite-audio">>,
      <<"--md", "doc.md">>,
      <<"--markdown", "doc.md", "--overwrite-audio">>,
      <<"--voices">>, <<"--list-voices", "v.txt">>, <<"--voices-short">>,
      <<"--test-voices">>, <<"--test-voices", "t.txt">>,
      <<"--test-voices", "t.txt", "v.txt">> }

CredentialsMissing_Mut(cfg) ==
    IF cfg.service = "azure"
    THEN cfg.api_key = ""
    ELSE cfg.api_key = "" \/ cfg.api_key = "your_api_key_here"

\* lines 487 and 525
CredentialsMissing(cfg) ==
    IF cfg.service = "azure"
    THEN cfg.api_key = "" \/ cfg.region = ""
    ELSE cfg.api_key = "" \/ cfg.api_key = "your_api_key_here"

\* lines 491 and 529
VoiceMissing(cfg) == cfg.voice_name = ""

\* lines 557-568, 592-602: an option given after the first argument
HasOption(a, option) == \E k \in 2..Len(a) : a[k] = option

InitMain ==
    /\ PipelineIdle
    /\ voice_ids = <<>>
    /\ available_voices = {}
    /\ tv_pc = "idle"
    /\ tv_k = 0
    /\ tv_results = <<>>
    /\ tv_calls = <<>>
    /\ config \in Configs
    /\ argv \in Argvs
    /\ main_pc = "config"
    /\ main_log = <<>>

\* lines 487-493, 525-531: a message is printed and main returns
MainConfigError ==
    /\ main_pc = "config"
    /\ CredentialsMissing(config) \/ VoiceMissing(config)
    /\ main_pc' = "exit"
    /\ UNCHANGED <<pipeline, config, argv, main_log, voice_ids,
                   available_voices, tv_pc, tv_k, tv_results, tv_calls>>

\* lines 513, 533, 539: the client and the modality processor are constructed
MainConstruct ==
    /\ main_pc = "config"
    /\ ~CredentialsMissing(config)
    /\ ~VoiceMissing(config)
    /\ main_log' = <<"tts_client", "ModalityToSpeech">>
    /\ main_pc' = "dispatch"
    /\ UNCHANGED <<pipeline, config, argv, voice_ids, available_voices,
                   tv_pc, tv_k, tv_results, tv_calls>>

\* lines 543-546, 626-631, 658-662: --help, --test-voices without its two
\* files, or an unknown first argument
MainUsage ==
    /\ main_pc = "dispatch"
    /\ argv # <<>>
    /\ \/ argv[1] \in {"--help", "-h"}
       \/ argv[1] = "--test-voices" /\ Len(argv) < 3
       \/ argv[1] \notin {"--help", "-h", "--ppt", "--powerpoint", "--md",
                          "--markdown", "--voices", "--list-voices",
                          "--voices-short", "--test-voices"}
    /\ main_log' = Append(main_log, "display_usage")
    /\ main_pc' = "exit"
    /\ UNCHANGED <<pipeline, config, argv, voice_ids, available_voices,
                   tv_pc, tv_k, tv_results, tv_calls>>

\* lines 616-625 with save_voices_to_file (83-115) or
\* save_voices_to_file_short (118-157): get_voices, then the listing is
\* written; a write that raised leaves the file created or truncated
MainSaveVoices ==
    /\ main_pc = "dispatch"
    /\ argv # <<>>
    /\ argv[1] \in {"--voices", "--list-voices", "--voices-short"}
    /\ LET short == argv[1] = "--voices-short"
           output_file ==
               IF Len(argv) > 1 THEN argv[2]
               ELSE IF short THEN "voices_short.txt" ELSE "voices.txt"
           target == abspath([abs |-> FALSE, comps |-> <<output_file>>])
       IN  /\ main_log' = main_log \o
                 <<IF short THEN "save_voices_to_file_short"
                   ELSE "save_voices_to_file", "get_voices">>
           /\ \E outcome \in {"no_voices", "open_failed", "write_failed", "saved"} :
                 fs' = IF outcome = "saved"
                       THEN [p \in DOMAIN fs \cup {target} |->
                                IF p = target THEN <<"voices">> ELSE fs[p]]
                       ELSE IF outcome = "write_failed"
                       THEN [p \in DOMAIN fs \cup {target} |->
                                IF p = target THEN <<>> ELSE fs[p]]
                       ELSE fs
    /\ main_pc' = "exit"
    /\ UNCHANGED <<sections, overwrite_audio, run, pc, locals, results, ret, exc,
                   dirs, tmp, logs, slide_text, stage, doc, parsed, title,
                   filename, headings, md_sections, deck, default_voice_name,
                   include_empty_notes, include_slide_titles, overwrite_script,
                   script, ppt_log, config, argv, voice_ids, available_voices,
                   tv_pc, tv_k, tv_results, tv_calls>>

\* lines 626-657: test_voices is called with the two files; listed is what
\* the voice list file holds
MainTestVoices ==
    /\ main_pc = "dispatch"
    /\ argv # <<>>
    /\ argv[1] = "--test-voices"
    /\ Len(argv) >= 3
    /\ main_log' = Append(main_log, "test_voices")
    /\ \E listed \in VoiceIdLists : voice_ids' = listed
    /\ tv_pc' = "start"
    /\ main_pc' = "test_voices"
    /\ UNCHANGED <<pipeline, config, argv, available_voices, tv_k, tv_results,
                   tv_calls>>

\* process_markdown_demo (255-335) up to its call of
\* process_markdown_document: the file is missing (282-284), or output_dir is
\* created (302) and the file cannot be read (309-311), or its text is handed
\* over (314-320)
MarkdownDemo(invoked, ow) ==
    /\ main_log' = main_log \o invoked \o <<"process_markdown_demo">>
    /\ \/ /\ main_pc' = "exit"
          /\ UNCHANGED <<dirs, stage, doc, overwrite_audio>>
       \/ /\ main_pc' = "exit"
          /\ dirs' = dirs \cup {md_output_dir}
          /\ UNCHANGED <<stage, doc, overwrite_audio>>
       \/ /\ main_pc' = "process_markdown_demo"
          /\ dirs' = dirs \cup {md_output_dir}
          /\ stage' = "document"
          /\ \E markdown_text \in SubDocs(ScenarioDoc) : doc' = markdown_text
          /\ overwrite_audio' = ow
    /\ UNCHANGED <<sections, run, pc, locals, results, ret, exc, fs, tmp, logs,
                   slide_text, parsed, title, filename, headings, md_sections,
                   deck, default_voice_name, include_empty_notes,
                   include_slide_titles, overwrite_script, script, ppt_log,
                   config, argv, voice_ids, available_voices, tv_pc, tv_k,
                   tv_results, tv_calls>>

\* process_powerpoint_demo (338-390) up to its call of process_powerpoint:
\* the file is missing (362-364), or process_powerpoint is called with
\* include_empty_notes=True (371-379); the script file is there or not
PowerPointDemo(invoked, voice, ist, os, ow) ==
    /\ main_log' = main_log \o invoked \o <<"process_powerpoint_demo">>
    /\ \/ /\ main_pc' = "exit"
          /\ UNCHANGED <<stage, deck, default_voice_name, include_empty_notes,
                         include_slide_titles, overwrite_script,
                         overwrite_audio, script>>
       \/ /\ main_pc' = "process_powerpoint_demo"
          /\ stage' = "powerpoint"
          /\ \E slides \in DecksOf(MaxDemoSlides) : deck' = slides
          /\ default_voice_name' = voice
          /\ include_empty_notes' = TRUE
          /\ include_slide_titles' = ist
          /\ overwrite_script' = os
          /\ overwrite_audio' = ow
          /\ \E old \in {NoScript, [ex |-> TRUE, text |-> OldScript]} :
                script' = old
    /\ UNCHANGED <<sections, run, pc, locals, results, ret, exc, env, logs,
                   slide_text, doc, parsed, title, filename, headings,
                   md_sections, ppt_log, config, argv, voice_ids,
                   available_voices, tv_pc, tv_k, tv_results, tv_calls>>

\* lines 583-615
MainMarkdown ==
    /\ main_pc = "dispatch"
    /\ argv # <<>>
    /\ argv[1] \in {"--md", "--markdown"}
    /\ MarkdownDemo(<<>>, HasOption(argv, "--overwrite-audio"))

\* lines 547-582
MainPowerPoint ==
    /\ main_pc = "dispatch"
    /\ argv # <<>>
    /\ argv[1] \in {"--ppt", "--powerpoint"}
    /\ PowerPointDemo(<<>>, config.voice_name, ~HasOption(argv, "--no-titles"),
                      HasOption(argv, "--overwrite-script"),
                      HasOption(argv, "--overwrite-audio"))

\* lines 663-672: no argument, the user declines the interactive mode
MainDecline ==
    /\ main_pc = "dispatch"
    /\ argv = <<>>
    /\ main_log' = Append(main_log, "display_usage")
    /\ main_pc' = "exit"
    /\ UNCHANGED <<pipeline, config, argv, voice_ids, available_voices,
                   tv_pc, tv_k, tv_results, tv_calls>>

\* lines 663-701: interactive mode; get_voices gave nothing (678-680), or
\* the user asks for nothing
MainInteractiveExit ==
    /\ main_pc = "dispatch"
    /\ argv = <<>>
    /\ main_log' = main_log \o <<"display_usage", "get_voices">>
    /\ main_pc' = "exit"
    /\ UNCHANGED <<pipeline, config, argv, voice_ids, available_voices,
                   tv_pc, tv_k, tv_results, tv_calls>>

\* lines 698-699: the demo is called without a voice
MainInteractivePowerPoint ==
    /\ main_pc = "dispatch"
    /\ argv = <<>>
    /\ PowerPointDemo(<<"display_usage", "get_voices">>, "", TRUE, FALSE, FALSE)

\* lines 700-701
MainInteractiveMarkdown ==
    /\ main_pc = "dispatch"
    /\ argv = <<>>
    /\ MarkdownDemo(<<"display_usage", "get_voices">>, FALSE)

\* The function main called has returned, and main returns
MainReturn ==
    /\ \/ main_pc = "test_voices" /\ tv_pc = "done"
       \/ /\ main_pc \in {"process_markdown_demo", "process_powerpoint_demo"}
          /\ pc = "done" \/ stage = "returned"
    /\ main_pc' = "exit"
    /\ UNCHANGED <<pipeline, config, argv, main_log, voice_ids,
                   available_voices, tv_pc, tv_k, tv_results, tv_calls>>

\* main with everything it calls
NextMain ==
    \/ MainConfigError
    \/ MainConstruct
    \/ MainUsage
    \/ MainSaveVoices
    \/ MainTestVoices
    \/ MainMarkdown
    \/ MainPowerPoint
    \/ MainDecline
    \/ MainInteractiveExit
    \/ MainInteractivePowerPoint
    \/ MainInteractiveMarkdown
    \/ MainReturn
    \/ NextVoices
    \/ NextDeck

SpecMain == InitMain /\ [][NextMain]_vars

\* C21: when the API key, the region of an Azure configuration or the default
\* voice is missing, main terminates with nothing constructed and nothing
\* invoked: no client, no ModalityToSpeech, no document, voice-listing or
\* synthesis operation, whatever the command line was.
C21_ConfigErrorsFatal ==
    (config.api_key = "" \/ (config.service = "azure" /\ config.region = "")
       \/ config.voice_name = "") =>
        /\ main_log = <<>>
        /\ main_pc \in {"config", "exit"}
        /\ stage = "idle" /\ pc = "idle" /\ tv_pc = "idle"
        /\ calls = <<>> /\ tv_calls = <<>>
        /\ DOMAIN fs = {} /\ dirs = {}

C21_Witness ==
    /\ main_pc = "exit"
    /\ main_log = <<>>
    /\ argv = <<"--test-voices", "t.txt", "v.txt">>
    /\ config = [service |-> "azure", api_key |-> "key", region |-> "",
                 voice_name |-> "Aria"]
====
